---- MODULE Spec2Model ----
(***************************************************************************)
(* A model of the Newick tree-description parser of the nexus_parser       *)
(* crate: the recursive descent of src/parser/newick.rs over a byte        *)
(* buffer, the label resolver, and the vertex model of src/model/vertex.rs.*)
(* The scanner (ByteParser), the arena (Tree), the label dictionary        *)
(* (LeafLabelMap) and the file driver are modelled from spec.md.           *)
(*                                                                         *)
(* The recursive descent is a machine with an explicit call stack: one     *)
(* action per stretch of a function between two reads of the byte at the   *)
(* cursor. The buffer is the variable input; a byte of it is fixed when    *)
(* the scanner first looks at it (Sees), so the behaviours cover every     *)
(* buffer of at most Cap bytes.                                            *)
(***************************************************************************)
EXTENDS Integers, Sequences, FiniteSets, TLC

\* Bounds of the model.
MaxLen == 8         \* bytes of one tree description
MaxLabelLen == 1    \* bytes of one label
MaxNumLen == 5      \* bytes of one branch-length literal
MaxStmtLen == 6     \* file driver: bytes of the description of one tree statement
MaxTrees == 3       \* file driver: tree statements of one block

\* usize::MAX, the value that marks an unset parent. TLC's integers are
\* 32 bits wide, so the largest of them stands for it.
NO_PARENT_SET == 2147483647

VARIABLES
    entry,           \* the entry point in use
    input,           \* ByteParser: the bytes of the buffer looked at so far
    closed,          \* ByteParser: the buffer ends after input
    pos,             \* ByteParser: the cursor (bytes consumed)
    stack,           \* the call stack of the recursive descent
    ret,             \* the value the last call returned
    vertices,        \* Tree: the arena
    root_index,      \* Tree: the index of the root
    num_leaves,      \* Tree: the leaf count it reports
    leaf_label_map,  \* LeafLabelMap: the names, a name's index is its place - 1
    resolver,        \* the LabelResolver in use
    outcome,         \* "running", "ok" (Ok), "err" (Err(ParsingError)), "panic"
    error,           \* the ParsingError returned
    steps,           \* the number of parser steps taken (for the work bound)
    translate,       \* file driver: the translation table of the tree block
    trees,           \* file driver: the trees parsed so far, in file order
    block,           \* file driver: where it is in the tree block
    candidate,       \* vertex model: an f64 handed to BranchLength::new
    made,            \* vertex model: what BranchLength::new gave
    probe            \* resolver model: the last token resolved, and the results

treeVars == <<vertices, root_index, num_leaves>>
parseVars == <<entry, input, closed, pos, stack, ret, vertices, root_index,
               num_leaves, outcome, error, steps>>
driverVars == <<translate, trees, block>>
unitVars == <<candidate, made, probe>>
vars == <<entry, input, closed, pos, stack, ret, vertices, root_index,
          num_leaves, leaf_label_map, resolver, outcome, error, steps,
          translate, trees, block, candidate, made, probe>>

----------------------------------------------------------------------------
\* Bytes. One whitespace byte stands for ' ', '\t', '\n' and '\r'.
Whitespace == {" "}
NEWICK_LABEL_DELIMITERS == {"(", ")", ",", ":", ";"} \cup Whitespace
Digits == {"0", "1", "2", "3", "4", "5", "6", "7", "8", "9"}
FloatChars == Digits \cup {".", "-", "+", "e", "E"}
\* The bytes a buffer of the model is made of. Where a vertex starts, a
\* buffer holds '(' or a label of LabelBytes (parse_label treats every byte
\* that is no delimiter alike).
LabelBytes == {"A", "B"}
Byte == NEWICK_LABEL_DELIMITERS \cup LabelBytes \cup {"9", "-", "e"}
EOF == "EOF"    \* peek() = None

None == [some |-> FALSE]
Some(x) == [some |-> TRUE, value |-> x]

----------------------------------------------------------------------------
\* f64 values: class, sign, and for a finite value its decimal digits * 10^exp10
\* (digits without trailing zeros; zero is digits = 0, exp10 = 0).
Finite(negative, digits, exp10) ==
    [class |-> "finite", negative |-> negative, digits |-> digits, exp10 |-> exp10]
Infinity(negative) ==
    [class |-> "infinite", negative |-> negative, digits |-> 0, exp10 |-> 0]
NaN == [class |-> "nan", negative |-> FALSE, digits |-> 0, exp10 |-> 0]

\* length >= 0.0 (false for NaN, true for -0.0)
f64_ge_zero(x) ==
    /\ x.class # "nan"
    /\ ~x.negative \/ (x.class = "finite" /\ x.digits = 0)

f64_is_finite(x) == x.class = "finite"

\* (a faulty BranchLength::new: the assertion on is_finite is missing)
BranchLength_new_sign_only(length) ==
    IF ~f64_ge_zero(length) THEN [panic |-> TRUE]
    ELSE [panic |-> FALSE, value |-> [inner |-> length]]

\* BranchLength::new: the two assertions, then the tuple struct around the f64.
BranchLength_new(length) ==
    IF ~f64_ge_zero(length) THEN [panic |-> TRUE]
    ELSE IF ~f64_is_finite(length) THEN [panic |-> TRUE]
    ELSE [panic |-> FALSE, value |-> [inner |-> length]]

\* Deref for BranchLength: the wrapped f64.
BranchLength_deref(bl) == bl.inner

DigitValue(c) ==
    CASE c = "0" -> 0 [] c = "1" -> 1 [] c = "2" -> 2 [] c = "3" -> 3
      [] c = "4" -> 4 [] c = "5" -> 5 [] c = "6" -> 6 [] c = "7" -> 7
      [] c = "8" -> 8 [] c = "9" -> 9

\* The first place from i on in s that holds no digit.
RECURSIVE DigitsEnd(_, _)
DigitsEnd(s, i) ==
    IF i <= Len(s) /\ s[i] \in Digits THEN DigitsEnd(s, i + 1) ELSE i

\* The number written by the digits among s[i..j-1] (a '.' is passed over).
RECURSIVE DigitsValue(_, _, _, _)
DigitsValue(s, i, j, acc) ==
    IF i >= j THEN acc
    ELSE IF s[i] \notin Digits THEN DigitsValue(s, i + 1, j, acc)
    ELSE DigitsValue(s, i + 1, j, acc * 10 + DigitValue(s[i]))

RECURSIVE Pow10(_)
Pow10(n) == IF n <= 0 THEN 1 ELSE 10 * Pow10(n - 1)

RECURSIVE NumDigits(_)
NumDigits(n) == IF n < 10 THEN 1 ELSE 1 + NumDigits(n \div 10)

\* digits * 10^exp10 rounded to f64: zero, a finite value, or infinity.
\* The largest finite f64 is 1.7976931348623157e308, the smallest positive
\* one 4.9e-324 (half of it, 2.4703282e-324, rounds to zero).
RECURSIVE f64_round(_, _, _)
f64_round(negative, digits, exp10) ==
    IF digits = 0 THEN Finite(negative, 0, 0)
    ELSE IF digits % 10 = 0 THEN f64_round(negative, digits \div 10, exp10 + 1)
    ELSE LET d == NumDigits(digits)
             lead == digits * Pow10(8 - d)
             mag == d + exp10
         IN IF mag > 309 \/ (mag = 309 /\ lead >= 17976932) THEN Infinity(negative)
            ELSE IF mag < -323 \/ (mag = -323 /\ lead <= 24703282)
                 THEN Finite(negative, 0, 0)
            ELSE Finite(negative, digits, exp10)

\* str::parse::<f64>() on a string of FloatChars:
\*   Sign? ( Digit+ | Digit+ '.' Digit* | Digit* '.' Digit+ ) ( [eE] Sign? Digit+ )?
f64_from_str(s) ==
    LET n == Len(s)
        signed == n > 0 /\ s[1] \in {"+", "-"}
        negative == n > 0 /\ s[1] = "-"
        a == IF signed THEN 2 ELSE 1
        b == DigitsEnd(s, a)
        hasDot == b <= n /\ s[b] = "."
        c == IF hasDot THEN DigitsEnd(s, b + 1) ELSE b
        fracLen == IF hasDot THEN c - (b + 1) ELSE 0
        hasExp == c <= n /\ s[c] \in {"e", "E"}
        expSigned == hasExp /\ c + 1 <= n /\ s[c + 1] \in {"+", "-"}
        expNegative == expSigned /\ s[c + 1] = "-"
        d == IF expSigned THEN c + 2 ELSE c + 1
        e == IF hasExp THEN DigitsEnd(s, d) ELSE c
        ok == /\ (b - a) + fracLen >= 1
              /\ hasExp => e > d
              /\ e = n + 1
        mantissa == DigitsValue(s, a, c, 0)
        exponent == IF hasExp THEN DigitsValue(s, d, e, 0) ELSE 0
    IN IF ~ok THEN [ok |-> FALSE]
       ELSE [ok |-> TRUE,
             value |-> f64_round(negative, mantissa,
                                 (IF expNegative THEN 0 - exponent ELSE exponent)
                                     - fracLen)]

----------------------------------------------------------------------------
\* Vertex (src/model/vertex.rs)
new_root(index, children) ==
    [kind |-> "Root", index |-> index, children |-> children]

new_internal(index, children, branch_length) ==
    [kind |-> "Internal", index |-> index, parent |-> NO_PARENT_SET,
     children |-> children, branch_length |-> branch_length]

new_leaf(index, branch_length, label_index) ==
    [kind |-> "Leaf", index |-> index, label_index |-> label_index,
     parent |-> NO_PARENT_SET, branch_length |-> branch_length]

is_leaf(v) == v.kind = "Leaf"
is_internal(v) == v.kind = "Internal"
is_root(v) == v.kind = "Root"

\* set_parent panics on a root.
set_parent_panics(v) == v.kind = "Root"

\* (a faulty set_parent: the Leaf arm is missing)
set_parent_internal_only(v, parent) ==
    IF v.kind = "Internal" THEN [v EXCEPT !.parent = parent] ELSE v

\* (a faulty set_parent: the index written is one too high)
set_parent_next_index(v, parent) ==
    IF v.kind = "Root" THEN v ELSE [v EXCEPT !.parent = parent + 1]

set_parent(v, parent) ==
    IF v.kind = "Root" THEN v ELSE [v EXCEPT !.parent = parent]

parent_index(v) ==
    IF v.kind \in {"Internal", "Leaf"}
    THEN (IF v.parent = NO_PARENT_SET THEN None ELSE Some(v.parent))
    ELSE None

has_parent(v) ==
    IF v.kind \in {"Internal", "Leaf"} THEN v.parent # NO_PARENT_SET ELSE FALSE

vertex_branch_length(v) ==
    IF v.kind = "Root" THEN None ELSE v.branch_length

vertex_children(v) ==
    IF v.kind = "Leaf" THEN None ELSE Some(v.children)

----------------------------------------------------------------------------
\* Tree, the arena (from spec.md, 4.4). A vertex's index is its place - 1.
\* Appending a vertex with children sets the parent of both children.
LinkChildren(vs, children, index) ==
    [i \in 1..Len(vs) |->
        IF i - 1 \in {children[1], children[2]} THEN set_parent(vs[i], index)
        ELSE vs[i]]

add_leaf(vs, branch_length, label_index) ==
    Append(vs, new_leaf(Len(vs), branch_length, label_index))

add_internal_vertex(vs, children, branch_length) ==
    Append(LinkChildren(vs, children, Len(vs)),
           new_internal(Len(vs), children, branch_length))

add_root(vs, children) ==
    Append(LinkChildren(vs, children, Len(vs)), new_root(Len(vs), children))

InArena(vs, i) == 0 <= i /\ i < Len(vs)

\* The validity check: every non-root vertex has its parent set, every index
\* referenced is in the arena, the leaf count is the number of Leaf vertices.
is_valid(vs, root, leaves) ==
    /\ root.some /\ InArena(vs, root.value) /\ is_root(vs[root.value + 1])
    /\ \A i \in 1..Len(vs) :
         /\ ~is_root(vs[i]) => has_parent(vs[i]) /\ InArena(vs, vs[i].parent)
         /\ ~is_leaf(vs[i]) => /\ InArena(vs, vs[i].children[1])
                               /\ InArena(vs, vs[i].children[2])
    /\ leaves = Cardinality({i \in 1..Len(vs) : is_leaf(vs[i])})

----------------------------------------------------------------------------
\* LeafLabelMap, the label dictionary (from spec.md, 4.3)
get_index(map, name) ==
    IF \E i \in 1..Len(map) : map[i] = name
    THEN Some((CHOOSE i \in 1..Len(map) : map[i] = name) - 1)
    ELSE None

get_or_insert(map, name) ==
    IF get_index(map, name).some
    THEN [index |-> get_index(map, name).value, map |-> map]
    ELSE [index |-> Len(map), map |-> Append(map, name)]

num_labels(map) == Len(map)

----------------------------------------------------------------------------
\* LabelResolver (src/parser/newick.rs)
new_label_to_index ==
    [kind |-> "LabelToIndex", translation |-> <<>>, index_map |-> <<>>]

new_key_to_label_to_index(translation) ==
    [kind |-> "KeyToLabelToIndex", translation |-> translation, index_map |-> <<>>]

\* new_key_to_index: the index of every entry's actual name, or the names
\* the dictionary lacks (the error names the first one the iteration meets).
KeyToIndexMissing(translation, map) ==
    {translation[k] : k \in {x \in DOMAIN translation :
                                ~get_index(map, translation[x]).some}}

\* (a faulty new_key_to_index: the index of the name is taken one too high)
new_key_to_index_off_by_one(translation, map) ==
    IF KeyToIndexMissing(translation, map) # {}
    THEN [ok |-> FALSE]
    ELSE [ok |-> TRUE,
          resolver |-> [kind |-> "KeyToIndex", translation |-> <<>>,
                        index_map |-> [k \in DOMAIN translation |->
                                          get_index(map, translation[k]).value + 1]]]

\* (a faulty new_key_to_index: an entry whose name is absent is left out)
new_key_to_index_skip_missing(translation, map) ==
    [ok |-> TRUE,
     resolver |-> [kind |-> "KeyToIndex", translation |-> <<>>,
                   index_map |-> [k \in {x \in DOMAIN translation :
                                            get_index(map, translation[x]).some} |->
                                     get_index(map, translation[k]).value]]]

new_key_to_index(translation, map) ==
    IF KeyToIndexMissing(translation, map) # {}
    THEN [ok |-> FALSE]
    ELSE [ok |-> TRUE,
          resolver |-> [kind |-> "KeyToIndex", translation |-> <<>>,
                        index_map |-> [k \in DOMAIN translation |->
                                          get_index(map, translation[k]).value]]]

\* format!("Label '{}' not found in ...", label): the text and what fills it
NotFound(label, where) ==
    [ok |-> FALSE, kind |-> "InvalidNewickString",
     msg |-> [format |-> "Label '{}' not found in " \o where, args |-> <<label>>]]

\* (a faulty resolve_label: a token the table lacks is taken as the name)
resolve_label_fallback(r, map, parsed_label) ==
    CASE r.kind = "LabelToIndex" ->
           [ok |-> TRUE, index |-> get_or_insert(map, parsed_label).index,
            map |-> get_or_insert(map, parsed_label).map]
      [] r.kind = "KeyToLabelToIndex" ->
           LET name == IF parsed_label \in DOMAIN r.translation
                       THEN r.translation[parsed_label] ELSE parsed_label
           IN [ok |-> TRUE, index |-> get_or_insert(map, name).index,
               map |-> get_or_insert(map, name).map]
      [] r.kind = "KeyToIndex" ->
           IF parsed_label \in DOMAIN r.index_map
           THEN [ok |-> TRUE, index |-> r.index_map[parsed_label], map |-> map]
           ELSE NotFound(parsed_label, "index map") @@ [map |-> map]

\* (a faulty resolve_label: the precomputed resolver inserts what it lacks)
resolve_label_index_insert(r, map, parsed_label) ==
    CASE r.kind = "LabelToIndex" ->
           [ok |-> TRUE, index |-> get_or_insert(map, parsed_label).index,
            map |-> get_or_insert(map, parsed_label).map]
      [] r.kind = "KeyToLabelToIndex" ->
           IF parsed_label \in DOMAIN r.translation
           THEN [ok |-> TRUE,
                 index |-> get_or_insert(map, r.translation[parsed_label]).index,
                 map |-> get_or_insert(map, r.translation[parsed_label]).map]
           ELSE NotFound(parsed_label, "translation map") @@ [map |-> map]
      [] r.kind = "KeyToIndex" ->
           IF parsed_label \in DOMAIN r.index_map
           THEN [ok |-> TRUE, index |-> r.index_map[parsed_label], map |-> map]
           ELSE [ok |-> TRUE, index |-> get_or_insert(map, parsed_label).index,
                 map |-> get_or_insert(map, parsed_label).map]

\* (a faulty resolve_label: the direct resolver inserts without looking up)
resolve_label_always_insert(r, map, parsed_label) ==
    CASE r.kind = "LabelToIndex" ->
           [ok |-> TRUE, index |-> Len(map), map |-> Append(map, parsed_label)]
      [] r.kind = "KeyToLabelToIndex" ->
           IF parsed_label \in DOMAIN r.translation
           THEN [ok |-> TRUE,
                 index |-> get_or_insert(map, r.translation[parsed_label]).index,
                 map |-> get_or_insert(map, r.translation[parsed_label]).map]
           ELSE NotFound(parsed_label, "translation map") @@ [map |-> map]
      [] r.kind = "KeyToIndex" ->
           IF parsed_label \in DOMAIN r.index_map
           THEN [ok |-> TRUE, index |-> r.index_map[parsed_label], map |-> map]
           ELSE NotFound(parsed_label, "index map") @@ [map |-> map]

\* resolve_label: the index and the dictionary afterwards, or the error.
resolve_label(r, map, parsed_label) ==
    CASE r.kind = "LabelToIndex" ->
           [ok |-> TRUE, index |-> get_or_insert(map, parsed_label).index,
            map |-> get_or_insert(map, parsed_label).map]
      [] r.kind = "KeyToLabelToIndex" ->
           IF parsed_label \in DOMAIN r.translation
           THEN [ok |-> TRUE,
                 index |-> get_or_insert(map, r.translation[parsed_label]).index,
                 map |-> get_or_insert(map, r.translation[parsed_label]).map]
           ELSE NotFound(parsed_label, "translation map") @@ [map |-> map]
      [] r.kind = "KeyToIndex" ->
           IF parsed_label \in DOMAIN r.index_map
           THEN [ok |-> TRUE, index |-> r.index_map[parsed_label], map |-> map]
           ELSE NotFound(parsed_label, "index map") @@ [map |-> map]

----------------------------------------------------------------------------
\* ByteParser, the scanner (from spec.md, 4.1)
\* A description handed to an entry point has at most MaxLen bytes of Byte.
\* The description of a tree statement of the file driver has at most
\* MaxStmtLen bytes, and its labels and branch lengths are made of '9'.
InBlock == block.at # "none"
Cap == IF InBlock THEN MaxStmtLen ELSE MaxLen
Bytes == IF InBlock THEN NEWICK_LABEL_DELIMITERS \cup {"9"} ELSE Byte
LabelStart ==
    IF InBlock THEN NEWICK_LABEL_DELIMITERS \cup {"9"}
    ELSE NEWICK_LABEL_DELIMITERS \cup LabelBytes

\* peek() = b. A byte the scanner has not looked at yet is any of fresh, or
\* the end of the buffer.
Sees(b, fresh) ==
    IF pos < Len(input) THEN b = input[pos + 1]
    ELSE IF closed THEN b = EOF
    ELSE b = EOF \/ (b \in fresh /\ Len(input) < Cap)

Observe(b) ==
    /\ input' = IF pos < Len(input) \/ b = EOF THEN input ELSE Append(input, b)
    /\ closed' = (closed \/ (pos >= Len(input) /\ b = EOF))

----------------------------------------------------------------------------
\* The call stack
Frame(fn, pc) ==
    [fn |-> fn, pc |-> pc, left_index |-> 0, right_index |-> 0,
     label_index |-> 0, text |-> <<>>]

Top == stack[Len(stack)]
At(fn, pc) ==
    /\ outcome = "running"
    /\ stack # <<>>
    /\ Top.fn = fn
    /\ Top.pc = pc

SetTop(f) == [stack EXCEPT ![Len(stack)] = f]
Pop == SubSeq(stack, 1, Len(stack) - 1)

\* Err(ParsingError::invalid_newick_string(parser, msg)), passed up by every `?`
Fail(msg) ==
    /\ outcome' = "err"
    /\ error' = [kind |-> "InvalidNewickString", msg |-> msg, position |-> pos]
    /\ stack' = <<>>
    /\ pos' = pos

\* A panic unwinds the whole parse.
Panic ==
    /\ outcome' = "panic"
    /\ stack' = <<>>
    /\ pos' = pos
    /\ UNCHANGED error

\* One step of the parser; the driver and the unit models stand still.
Tick ==
    /\ steps' = steps + 1
    /\ UNCHANGED <<driverVars, unitVars>>

Continue(newStack, newPos) ==
    /\ stack' = newStack
    /\ pos' = newPos
    /\ UNCHANGED <<outcome, error>>

----------------------------------------------------------------------------
\* The tree-description parser (src/parser/newick.rs)

\* parse_newick: a fresh tree, a fresh dictionary and the direct resolver;
\* skip_whitespace, then parse_root (which starts with parser_children).
parse_newick ==
    /\ At("parse_newick", "skip_whitespace")
    /\ \E b \in Byte \cup {EOF} :
         /\ Sees(b, Bytes)
         /\ Observe(b)
         /\ IF b \in Whitespace
            THEN Continue(stack, pos + 1)
            ELSE Continue(<<[Top EXCEPT !.pc = "parse_root"],
                            Frame("parse_root", "colon"),
                            Frame("parser_children", "open")>>, pos)
    /\ Tick
    /\ UNCHANGED <<entry, ret, treeVars, leaf_label_map, resolver>>

\* parse_newick_with_resolver: a fresh tree and the caller's resolver.
parse_newick_with_resolver ==
    /\ At("parse_newick_with_resolver", "skip_whitespace")
    /\ \E b \in Byte \cup {EOF} :
         /\ Sees(b, Bytes)
         /\ Observe(b)
         /\ IF b \in Whitespace
            THEN Continue(stack, pos + 1)
            ELSE Continue(<<[Top EXCEPT !.pc = "parse_root"],
                            Frame("parse_root", "colon"),
                            Frame("parser_children", "open")>>, pos)
    /\ Tick
    /\ UNCHANGED <<entry, ret, treeVars, leaf_label_map, resolver>>

\* parse_root after parser_children: the optional branch length of the root.
parse_root ==
    /\ At("parse_root", "colon")
    /\ \E b \in Byte \cup {EOF} :
         /\ Sees(b, Bytes)
         /\ Observe(b)
         /\ LET me == [Top EXCEPT !.pc = "semicolon",
                                  !.left_index = ret[1], !.right_index = ret[2]]
            IN IF b = ":"
               THEN Continue(Append(SetTop(me), Frame("parse_branch_length", "colon")),
                             pos)
               ELSE Continue(SetTop(me), pos)
    /\ Tick
    /\ UNCHANGED <<entry, ret, treeVars, leaf_label_map, resolver>>

\* (a faulty end of parse_root: add_root comes before the check for ';')
parse_root_end_root_first(b) ==
    /\ vertices' = add_root(vertices, <<Top.left_index, Top.right_index>>)
    /\ root_index' = Some(Len(vertices))
    /\ UNCHANGED num_leaves
    /\ IF b = ";"
       THEN /\ outcome' = "ok"
            /\ stack' = <<>>
            /\ pos' = pos + 1
            /\ UNCHANGED error
       ELSE Fail(<<"Expected ';' at end of tree but found ", b>>)

\* parse_root at a byte b that is no whitespace: the terminating ';', then
\* add_root; the entry point returns the tree.
parse_root_end_at(b) ==
    IF b = ";"
    THEN /\ vertices' = add_root(vertices, <<Top.left_index, Top.right_index>>)
         /\ root_index' = Some(Len(vertices))
         /\ UNCHANGED num_leaves
         /\ outcome' = "ok"
         /\ stack' = <<>>
         /\ pos' = pos + 1
         /\ UNCHANGED error
    ELSE /\ Fail(<<"Expected ';' at end of tree but found ", b>>)
         /\ UNCHANGED treeVars

\* parse_root: skip_whitespace (one byte a step), then the end of the tree.
parse_root_end ==
    /\ At("parse_root", "semicolon")
    /\ \E b \in Byte \cup {EOF} :
         /\ Sees(b, Bytes)
         /\ Observe(b)
         /\ IF b \in Whitespace
            THEN /\ Continue(stack, pos + 1)
                 /\ UNCHANGED treeVars
            ELSE parse_root_end_at(b)
    /\ Tick
    /\ UNCHANGED <<entry, ret, leaf_label_map, resolver>>

\* parse_vertex: an internal vertex if the next byte is '(', else a leaf.
\* It returns what the function it calls returns, so that call takes its frame.
parse_vertex ==
    /\ At("parse_vertex", "peek")
    /\ \E b \in Byte \cup {EOF} :
         /\ Sees(b, LabelStart)
         /\ Observe(b)
         /\ IF b = "("
            THEN Continue(Append(SetTop(Frame("parse_internal_vertex", "branch_length")),
                                 Frame("parser_children", "open")), pos)
            ELSE Continue(SetTop(Frame("parse_leaf", "label")), pos)
    /\ Tick
    /\ UNCHANGED <<entry, ret, treeVars, leaf_label_map, resolver>>

\* parse_internal_vertex after parser_children: parse_branch_length.
parse_internal_vertex ==
    /\ At("parse_internal_vertex", "branch_length")
    /\ Continue(Append(SetTop([Top EXCEPT !.pc = "add", !.left_index = ret[1],
                                          !.right_index = ret[2]]),
                       Frame("parse_branch_length", "colon")), pos)
    /\ Tick
    /\ UNCHANGED <<entry, input, closed, ret, treeVars, leaf_label_map, resolver>>

\* parse_internal_vertex: add_internal_vertex, and return its index.
parse_internal_vertex_add ==
    /\ At("parse_internal_vertex", "add")
    /\ vertices' = add_internal_vertex(vertices, <<Top.left_index, Top.right_index>>, ret)
    /\ ret' = Len(vertices)
    /\ Continue(Pop, pos)
    /\ Tick
    /\ UNCHANGED <<entry, input, closed, root_index, num_leaves, leaf_label_map,
                   resolver>>

\* parser_children: '(' and the left child.
parser_children_open ==
    /\ At("parser_children", "open")
    /\ \E b \in Byte \cup {EOF} :
         /\ Sees(b, Bytes)
         /\ Observe(b)
         /\ IF b = "("
            THEN Continue(Append(SetTop([Top EXCEPT !.pc = "comma"]),
                                 Frame("parse_vertex", "peek")), pos + 1)
            ELSE Fail(<<"Expected '(' before children but found ", b>>)
    /\ Tick
    /\ UNCHANGED <<entry, ret, treeVars, leaf_label_map, resolver>>

\* parser_children: ',' and the right child.
parser_children_comma ==
    /\ At("parser_children", "comma")
    /\ \E b \in Byte \cup {EOF} :
         /\ Sees(b, Bytes)
         /\ Observe(b)
         /\ IF b = ","
            THEN Continue(Append(SetTop([Top EXCEPT !.pc = "close", !.left_index = ret]),
                                 Frame("parse_vertex", "peek")), pos + 1)
            ELSE Fail(<<"Expected ',' between children but found ", b>>)
    /\ Tick
    /\ UNCHANGED <<entry, ret, treeVars, leaf_label_map, resolver>>

\* parser_children: ')' and the two indices.
parser_children_close ==
    /\ At("parser_children", "close")
    /\ \E b \in Byte \cup {EOF} :
         /\ Sees(b, Bytes)
         /\ Observe(b)
         /\ IF b = ")"
            THEN /\ Continue(Pop, pos + 1)
                 /\ ret' = <<Top.left_index, ret>>
            ELSE /\ Fail(<<"Expected ')' after children but found ", b>>)
                 /\ UNCHANGED ret
    /\ Tick
    /\ UNCHANGED <<entry, treeVars, leaf_label_map, resolver>>

\* parse_leaf: parse_label takes bytes up to a delimiter or the end of the
\* buffer (one byte a step), then resolve_label, then parse_branch_length.
parse_leaf ==
    /\ At("parse_leaf", "label")
    /\ \E b \in Byte \cup {EOF} :
         /\ Sees(b, IF Len(Top.text) < MaxLabelLen
                    THEN LabelStart
                    ELSE NEWICK_LABEL_DELIMITERS)
         /\ Observe(b)
         /\ IF b # EOF /\ b \notin NEWICK_LABEL_DELIMITERS
            THEN /\ Continue(SetTop([Top EXCEPT !.text = Append(@, b)]), pos + 1)
                 /\ UNCHANGED leaf_label_map
            ELSE LET r == resolve_label(resolver, leaf_label_map, Top.text)
                 IN IF r.ok
                    THEN /\ leaf_label_map' = r.map
                         /\ Continue(Append(SetTop([Top EXCEPT !.pc = "add",
                                                        !.label_index = r.index]),
                                            Frame("parse_branch_length", "colon")),
                                     pos)
                    ELSE /\ Fail(r.msg)
                         /\ leaf_label_map' = r.map
    /\ Tick
    /\ UNCHANGED <<entry, ret, treeVars, resolver>>

\* parse_leaf: add_leaf, and return its index.
parse_leaf_add ==
    /\ At("parse_leaf", "add")
    /\ vertices' = add_leaf(vertices, ret, Top.label_index)
    /\ num_leaves' = num_leaves + 1
    /\ ret' = Len(vertices)
    /\ Continue(Pop, pos)
    /\ Tick
    /\ UNCHANGED <<entry, input, closed, root_index, leaf_label_map, resolver>>

\* parse_branch_length: no ':' is no branch length.
parse_branch_length ==
    /\ At("parse_branch_length", "colon")
    /\ \E b \in Byte \cup {EOF} :
         /\ Sees(b, Bytes)
         /\ Observe(b)
         /\ IF b = ":"
            THEN /\ Continue(SetTop([Top EXCEPT !.pc = "digits"]), pos + 1)
                 /\ UNCHANGED ret
            ELSE /\ Continue(Pop, pos)
                 /\ ret' = None
    /\ Tick
    /\ UNCHANGED <<entry, treeVars, leaf_label_map, resolver>>

\* parse_branch_length: one turn of the loop over the bytes of the literal;
\* at its end the string is parsed and BranchLength::new is called.
parse_branch_length_loop ==
    /\ At("parse_branch_length", "digits")
    /\ \E b \in Byte \cup {EOF} :
         /\ Sees(b, IF Len(Top.text) < MaxNumLen THEN Bytes ELSE Bytes \ FloatChars)
         /\ Observe(b)
         /\ IF b \in FloatChars
            THEN /\ Continue(SetTop([Top EXCEPT !.text = Append(@, b)]), pos + 1)
                 /\ UNCHANGED ret
            ELSE LET value == f64_from_str(Top.text)
                 IN IF ~value.ok
                    THEN /\ Fail(<<"Invalid branch length: ", Top.text>>)
                         /\ UNCHANGED ret
                    ELSE IF BranchLength_new(value.value).panic
                    THEN /\ Panic
                         /\ UNCHANGED ret
                    ELSE /\ Continue(Pop, pos)
                         /\ ret' = Some(BranchLength_new(value.value).value)
    /\ Tick
    /\ UNCHANGED <<entry, treeVars, leaf_label_map, resolver>>

\* The steps of a parse begun by parse_newick_with_resolver.
ParseStep ==
    \/ parse_newick_with_resolver
    \/ parse_root
    \/ parse_root_end
    \/ parse_vertex
    \/ parse_internal_vertex
    \/ parse_internal_vertex_add
    \/ parser_children_open
    \/ parser_children_comma
    \/ parser_children_close
    \/ parse_leaf
    \/ parse_leaf_add
    \/ parse_branch_length
    \/ parse_branch_length_loop

----------------------------------------------------------------------------
\* The callers' translation tables and dictionaries.
Translations ==
    { (<<"A">> :> <<"B">>),
      (<<"A">> :> <<"B">>) @@ (<<"B">> :> <<"A">>) }
Dictionaries == { <<>>, << <<"B">>, <<"A">> >> }

\* What a caller can pass to parse_newick_with_resolver: a resolver made by
\* one of the three constructors, over a dictionary.
ResolverInputs ==
    {[resolver |-> new_label_to_index, map |-> m] : m \in Dictionaries}
    \cup {[resolver |-> new_key_to_label_to_index(t), map |-> m] :
            t \in Translations, m \in Dictionaries}
    \cup {[resolver |-> new_key_to_index(x[1], x[2]).resolver, map |-> x[2]] :
            x \in {y \in Translations \X Dictionaries :
                      new_key_to_index(y[1], y[2]).ok}}

StartParse(e) ==
    /\ entry = e
    /\ input = <<>>
    /\ closed = FALSE
    /\ pos = 0
    /\ stack = <<Frame(e, "skip_whitespace")>>
    /\ ret = None
    /\ vertices = <<>>
    /\ root_index = None
    /\ num_leaves = 0
    /\ outcome = "running"
    /\ error = [kind |-> "none"]
    /\ steps = 0

ParserIdle ==
    /\ entry = "none"
    /\ input = <<>>
    /\ closed = FALSE
    /\ pos = 0
    /\ stack = <<>>
    /\ ret = None
    /\ vertices = <<>>
    /\ root_index = None
    /\ num_leaves = 0
    /\ outcome = "idle"
    /\ error = [kind |-> "none"]
    /\ steps = 0

DriverIdle ==
    /\ translate = None
    /\ trees = <<>>
    /\ block = [at |-> "none", statements |-> 0]

UnitIdle ==
    /\ candidate = NaN
    /\ made = None
    /\ probe = None

Init ==
    /\ DriverIdle
    /\ UnitIdle
    /\ \/ /\ StartParse("parse_newick")
          /\ leaf_label_map = <<>>
          /\ resolver = new_label_to_index
       \/ /\ StartParse("parse_newick_with_resolver")
          /\ \E x \in ResolverInputs :
               /\ resolver = x.resolver
               /\ leaf_label_map = x.map

Next ==
    \/ parse_newick
    \/ ParseStep

Spec == Init /\ [][Next]_vars

----------------------------------------------------------------------------
\* What the parse has come to.
Done == outcome # "running"
Returned == outcome = "ok"
Roots == {i \in 1..Len(vertices) : is_root(vertices[i])}
Internals == {i \in 1..Len(vertices) : is_internal(vertices[i])}
Leaves == {i \in 1..Len(vertices) : is_leaf(vertices[i])}

C2_PostOrderSingleRoot ==
    /\ \A i \in 1..Len(vertices) :
         /\ vertices[i].index = i - 1
         /\ ~is_leaf(vertices[i]) =>
              /\ vertices[i].children[1] < i - 1
              /\ vertices[i].children[2] < i - 1
         /\ is_root(vertices[i]) =>
              /\ i = Len(vertices)
              /\ Returned
              /\ pos >= 1 /\ input[pos] = ";"
    /\ Returned =>
         /\ Cardinality(Roots) = 1
         /\ root_index = Some(Len(vertices) - 1)

\* A tree was returned whose root has an internal vertex as a child.
C2_Witness ==
    /\ Returned
    /\ \E i \in Roots :
         \E c \in {vertices[i].children[1], vertices[i].children[2]} :
            is_internal(vertices[c + 1])

----------------------------------------------------------------------------
\* The grammar of tree descriptions (spec.md, 4.6) as a recognizer over a
\* byte sequence s:
\*   root          := children (':' branch_length)? ';'
\*   children      := '(' vertex ',' vertex ')'
\*   vertex        := children branch_length? | label branch_length?
\*   branch_length := ':' literal
\* Each operator gives the place after the phrase that starts at place i,
\* and 0 if no such phrase starts there (or i is 0).
RECURSIVE LabelEnd(_, _)
LabelEnd(s, i) ==
    IF i <= Len(s) /\ s[i] \notin NEWICK_LABEL_DELIMITERS THEN LabelEnd(s, i + 1)
    ELSE i

RECURSIVE LiteralEnd(_, _)
LiteralEnd(s, i) ==
    IF i <= Len(s) /\ s[i] \in FloatChars THEN LiteralEnd(s, i + 1) ELSE i

RECURSIVE WhitespaceEnd(_, _)
WhitespaceEnd(s, i) ==
    IF i <= Len(s) /\ s[i] \in Whitespace THEN WhitespaceEnd(s, i + 1) ELSE i

IsByte(s, i, b) == 1 <= i /\ i <= Len(s) /\ s[i] = b

Literal(s, i) == SubSeq(s, i, LiteralEnd(s, i) - 1)

MatchOptLength(s, i) ==
    IF ~IsByte(s, i, ":") THEN i
    ELSE IF f64_from_str(Literal(s, i + 1)).ok THEN LiteralEnd(s, i + 1)
    ELSE 0

RECURSIVE MatchVertex(_, _)
RECURSIVE MatchChildren(_, _)
MatchChildren(s, i) ==
    IF ~IsByte(s, i, "(") THEN 0
    ELSE LET l == MatchVertex(s, i + 1)
         IN IF ~IsByte(s, l, ",") THEN 0
            ELSE LET r == MatchVertex(s, l + 1)
                 IN IF ~IsByte(s, r, ")") THEN 0 ELSE r + 1

MatchVertex(s, i) ==
    IF i = 0 THEN 0
    ELSE IF IsByte(s, i, "(") THEN MatchOptLength(s, MatchChildren(s, i))
    ELSE MatchOptLength(s, LabelEnd(s, i))

\* The place after the description that s starts with (leading whitespace
\* skipped), 0 if s starts with none: then s, however it goes on after the
\* bytes looked at, violates the grammar.
MatchRoot(s) ==
    LET c == MatchOptLength(s, MatchChildren(s, WhitespaceEnd(s, 1)))
    IN IF c = 0 THEN 0
       ELSE IF IsByte(s, WhitespaceEnd(s, c), ";") THEN WhitespaceEnd(s, c) + 1
       ELSE 0

ParsingErrorKinds ==
    {"UnexpectedEOF", "MissingNexusHeader", "InvalidBlockName", "InvalidTaxaBlock",
     "InvalidTreesBlock", "UnclosedComment", "InvalidNewickString", "InvalidFormatting"}

\* C3: the parse of a description that violates the grammar returns an
\* invalid-tree-description (or end-of-input) diagnostic, never a tree, and
\* never reaches add_root.
C3_GrammarViolationIsDiagnosed ==
    (Done /\ MatchRoot(input) = 0) =>
        /\ outcome = "err"
        /\ error.kind \in {"InvalidNewickString", "UnexpectedEOF"}
        /\ Roots = {}
        /\ root_index = None

\* What is left of C3 beside the panic of BranchLength::new: a description
\* that violates the grammar gives no tree and no root, and if the parse
\* returns, it returns an invalid-tree-description diagnostic; a tree is
\* returned only for a description of the grammar, consumed to its ';'.
GrammarViolationGivesNoTree ==
    /\ (Done /\ MatchRoot(input) = 0) =>
          /\ outcome \in {"err", "panic"}
          /\ outcome = "err" => error.kind = "InvalidNewickString"
          /\ Roots = {}
          /\ root_index = None
    /\ Returned => MatchRoot(input) = pos + 1
    /\ outcome = "err" => MatchRoot(input) = 0

\* The branch-length literals of s that are well formed and whose value is
\* negative or not finite (a literal that ends where s ends counts once the
\* buffer is known to end there).
f64_is_negative(x) ==
    /\ x.class # "nan"
    /\ x.negative
    /\ x.class = "infinite" \/ x.digits > 0

InvalidLengths(s, ended) ==
    {i \in 1..Len(s) :
        /\ s[i] = ":"
        /\ LiteralEnd(s, i + 1) <= Len(s) \/ ended
        /\ f64_from_str(Literal(s, i + 1)).ok
        /\ \/ f64_is_negative(f64_from_str(Literal(s, i + 1)).value)
           \/ ~f64_is_finite(f64_from_str(Literal(s, i + 1)).value)}

\* C4: the parse of a description with a well-formed branch length that is
\* negative or not finite ends with a ParsingError for the caller, and no tree.
C4_InvalidLengthIsParsingError ==
    (Done /\ InvalidLengths(input, closed) # {}) =>
        /\ outcome = "err"
        /\ error.kind \in ParsingErrorKinds
        /\ Roots = {}

\* What the code does there: BranchLength::new panics, at every such literal,
\* and a parse that panics has met one.
InvalidLengthPanics ==
    /\ (Done /\ InvalidLengths(input, closed) # {}) => outcome = "panic" /\ Roots = {}
    /\ outcome = "panic" => InvalidLengths(input, closed) # {}

----------------------------------------------------------------------------
\* The labels of a description, left to right: a label begins after every
\* '(' and ',' that no '(' follows, and ends before the next delimiter.
RECURSIVE LabelsFrom(_, _)
LabelsFrom(s, i) ==
    IF i > Len(s) THEN <<>>
    ELSE IF s[i] \in {"(", ","} /\ ~(i < Len(s) /\ s[i + 1] = "(")
         THEN <<SubSeq(s, i + 1, LabelEnd(s, i + 1) - 1)>> \o LabelsFrom(s, i + 1)
         ELSE LabelsFrom(s, i + 1)

\* The 0-based rank of the first appearance of the k-th label.
FirstRank(labels, k) ==
    LET first == CHOOSE j \in 1..k :
                    /\ labels[j] = labels[k]
                    /\ \A h \in 1..(j - 1) : labels[h] # labels[k]
    IN Cardinality({labels[h] : h \in 1..(first - 1)})

\* The leaves of the arena in the order they were added.
LeafSeq == SelectSeq(vertices, is_leaf)

\* C9: parsing a description with a fresh dictionary and the direct resolver
\* gives each leaf the label index that is the 0-based rank of the first
\* appearance of its label in the text, a repeated label gets the index it
\* has without the count growing, and the dictionary ends with as many
\* entries as there are distinct labels; no resolve ever changes, reuses or
\* removes an index that was assigned.
C9_FirstEncounterOrder ==
    /\ [](/\ (Returned /\ entry = "parse_newick") =>
               LET labels == LabelsFrom(input, 1)
               IN /\ Len(LeafSeq) = Len(labels)
                  /\ \A k \in 1..Len(labels) :
                       /\ LeafSeq[k].label_index = FirstRank(labels, k)
                       /\ leaf_label_map[LeafSeq[k].label_index + 1] = labels[k]
                  /\ num_labels(leaf_label_map) =
                        Cardinality({labels[k] : k \in 1..Len(labels)})
          /\ \A i, j \in 1..Len(leaf_label_map) :
               leaf_label_map[i] = leaf_label_map[j] => i = j)
    /\ [][/\ Len(leaf_label_map') >= Len(leaf_label_map)
          /\ \A i \in 1..Len(leaf_label_map) :
               leaf_label_map'[i] = leaf_label_map[i]]_vars

\* A tree of three leaves was returned whose first and last leaf have the
\* same label: the dictionary has two entries.
C9_Witness ==
    /\ Returned
    /\ entry = "parse_newick"
    /\ Len(LeafSeq) = 3
    /\ LeafSeq[1].label_index = 0
    /\ LeafSeq[2].label_index = 1
    /\ LeafSeq[3].label_index = 0
    /\ num_labels(leaf_label_map) = 2

\* The steps a parse can take over n bytes of input.
StepBound(n) == 4 * n + 4

\* C10: the parse of a description ends, in a tree or in a diagnostic, after
\* a number of steps bounded by the length of the input; every step of a
\* loop and every descent into a child list consumes a byte or returns; the
\* cursor never moves backwards and never passes the end of the input.
C10_ParseEndsInTreeOrDiagnostic ==
    /\ [](/\ pos <= Len(input)
          /\ Len(input) <= Cap
          /\ steps <= StepBound(pos)
          /\ Done => outcome \in {"ok", "err"})
    /\ [][/\ pos' >= pos
          /\ pos' <= pos + 1
          /\ (/\ stack' # <<>>
              /\ Len(stack') = Len(stack)
              /\ Top'.fn = Top.fn
              /\ Top'.pc = Top.pc) => pos' = pos + 1
          /\ (/\ stack # <<>>
              /\ Top.fn = "parser_children"
              /\ Top.pc = "open") => (pos' = pos + 1 \/ outcome' = "err")]_vars

\* Beside the panic of BranchLength::new the same holds: the parse is over
\* within the bound, the cursor moving forwards only and within the input.
ParseEndsWithinBound ==
    /\ [](/\ pos <= Len(input)
          /\ Len(input) <= Cap
          /\ steps <= StepBound(pos)
          /\ Done => outcome \in {"ok", "err", "panic"}
          /\ (outcome = "running") = (stack # <<>>))
    /\ [][/\ pos' >= pos
          /\ pos' <= pos + 1
          /\ steps' = steps + 1
          /\ (/\ stack' # <<>>
              /\ Len(stack') = Len(stack)
              /\ Top'.fn = Top.fn
              /\ Top'.pc = Top.pc) => pos' = pos + 1
          /\ (/\ stack # <<>>
              /\ Top.fn = "parser_children"
              /\ Top.pc = "open") => (pos' = pos + 1 \/ outcome' = "err")]_vars

----------------------------------------------------------------------------
\* The vertices of the arena that name the vertex of index i as a child.
NamedBy(vs, i) ==
    {j \in 1..Len(vs) : /\ ~is_leaf(vs[j])
                        /\ i \in {vs[j].children[1], vs[j].children[2]}}

\* C11: during the parse of a description the parent of every vertex that
\* is not the root is set exactly once: it is unset from the append of the
\* vertex until the one append, of an internal vertex or of the root, that
\* names it as a child, that append sets it to the index of the appended
\* vertex, and nothing overwrites it afterwards; no index is passed as a
\* child to two appends.
C11_ParentSetExactlyOnce ==
    /\ [](\A i \in 1..Len(vertices) :
            /\ Cardinality(NamedBy(vertices, i - 1)) <= 1
            /\ ~is_root(vertices[i]) =>
                 /\ has_parent(vertices[i]) = (NamedBy(vertices, i - 1) # {})
                 /\ \A j \in NamedBy(vertices, i - 1) :
                      /\ j > i
                      /\ parent_index(vertices[i]) = Some(j - 1))
    /\ [][/\ Len(vertices') \in {Len(vertices), Len(vertices) + 1}
          /\ \A i \in 1..Len(vertices) :
               /\ has_parent(vertices[i]) => vertices'[i] = vertices[i]
               /\ (~is_root(vertices[i]) /\ ~has_parent(vertices[i])
                     /\ has_parent(vertices'[i])) =>
                    /\ Len(vertices') = Len(vertices) + 1
                    /\ ~is_leaf(vertices'[Len(vertices')])
                    /\ Len(vertices) + 1 \in NamedBy(vertices', i - 1)
                    /\ parent_index(vertices'[i]) = Some(Len(vertices))
               /\ is_root(vertices[i])
                    \/ vertices'[i] = [vertices[i] EXCEPT !.parent = vertices'[i].parent]]_vars

\* A tree of five vertices was returned: the two leaves of the inner vertex
\* have their parent from its append, the inner vertex and the third leaf
\* from the append of the root.
C11_Witness ==
    /\ Returned
    /\ Len(vertices) = 5
    /\ is_internal(vertices[3])
    /\ parent_index(vertices[1]) = Some(2)
    /\ parent_index(vertices[2]) = Some(2)
    /\ parent_index(vertices[3]) = Some(4)
    /\ parent_index(vertices[4]) = Some(4)

----------------------------------------------------------------------------
\* The vertex model on its own: BranchLength::new on an f64, then a vertex
\* made with the branch length and the accessors read.
MaxDigits == 9      \* the f64 values tried: digits * 10^exp10, both signs,
MaxExp == 2         \* digits in 0..MaxDigits, exp10 in -MaxExp..MaxExp

F64Values ==
    {Finite(n, d, e) : n \in BOOLEAN, d \in 1..MaxDigits, e \in (0 - MaxExp)..MaxExp}
    \cup {Finite(n, 0, 0) : n \in BOOLEAN}
    \cup {Infinity(n) : n \in BOOLEAN}
    \cup {NaN}

call_BranchLength_new ==
    /\ ~made.some
    /\ made' = Some(BranchLength_new(candidate))
    /\ UNCHANGED <<parseVars, leaf_label_map, resolver, driverVars, candidate, probe>>

\* Vertex::new_internal / new_leaf with the branch length, then
\* Vertex::branch_length and the deref of what it gives.
read_branch_length ==
    /\ made.some
    /\ ~made.value.panic
    /\ ~probe.some
    /\ \E v \in {new_internal(5, <<1, 2>>, Some(made.value.value)),
                 new_leaf(0, Some(made.value.value), 10)} :
         probe' = Some([vertex |-> v,
                        branch_length |-> vertex_branch_length(v),
                        deref |-> BranchLength_deref(vertex_branch_length(v).value)])
    /\ UNCHANGED <<parseVars, leaf_label_map, resolver, driverVars, candidate, made>>

MaxParent == 3      \* the TreeIndex values tried: 0..MaxParent and usize::MAX
TreeIndexValues == 0..MaxParent \cup {NO_PARENT_SET}

\* Vertex::new_leaf, Vertex::new_internal or Vertex::new_root
construct_vertex ==
    /\ outcome = "idle"
    /\ vertices = <<>>
    /\ \E v \in {new_leaf(0, None, 10), new_internal(5, <<1, 2>>, None),
                 new_root(5, <<1, 2>>)} :
         vertices' = <<v>>
    /\ UNCHANGED <<entry, input, closed, pos, stack, ret, root_index, num_leaves,
                   outcome, error, steps, leaf_label_map, resolver, driverVars,
                   unitVars>>

\* vertex.set_parent(p): ret keeps the p of the call; on a root it panics.
call_set_parent ==
    /\ outcome = "idle"
    /\ Len(vertices) = 1
    /\ \E p \in TreeIndexValues :
         /\ ret' = Some(p)
         /\ IF set_parent_panics(vertices[1])
            THEN /\ outcome' = "panic"
                 /\ UNCHANGED vertices
            ELSE /\ vertices' = <<set_parent(vertices[1], p)>>
                 /\ UNCHANGED outcome
    /\ UNCHANGED <<entry, input, closed, pos, stack, root_index, num_leaves,
                   error, steps, leaf_label_map, resolver, driverVars, unitVars>>

InitVertex ==
    /\ ParserIdle
    /\ DriverIdle
    /\ leaf_label_map = <<>>
    /\ resolver = new_label_to_index
    /\ candidate \in F64Values
    /\ made = None
    /\ probe = None

NextVertex ==
    \/ call_BranchLength_new
    \/ read_branch_length
    \/ construct_vertex
    \/ call_set_parent

SpecVertex == InitVertex /\ [][NextVertex]_vars

\* C5: BranchLength::new succeeds for every finite value that is not
\* negative, and the accessors (deref, Vertex::branch_length) then give the
\* value it was made from; for every negative value and for NaN, +infinity
\* and -infinity it fails.
C5_BranchLengthNew ==
    /\ made.some =>
         /\ (f64_is_finite(candidate) /\ ~f64_is_negative(candidate)) =>
               /\ ~made.value.panic
               /\ BranchLength_deref(made.value.value) = candidate
         /\ (f64_is_negative(candidate) \/ ~f64_is_finite(candidate)) =>
               made.value.panic
    /\ probe.some =>
         /\ probe.value.branch_length.some
         /\ probe.value.deref = candidate

\* A positive value was accepted and read back from a vertex.
C5_Witness ==
    /\ probe.some
    /\ probe.value.deref = candidate
    /\ candidate.digits > 0
    /\ candidate.exp10 < 0

\* C12: for every vertex has_parent() is true exactly when parent_index()
\* is Some; a freshly constructed Internal or Leaf vertex reports None and
\* false, a Root reports None and false always, and set_parent on a Root is
\* rejected; for every vertex that is not a root and every TreeIndex p, after
\* set_parent(p) the vertex reports parent_index() = Some(p) and
\* has_parent() = true.
C12_ParentAccessorsAgree ==
    Len(vertices) = 1 =>
        LET v == vertices[1]
        IN /\ has_parent(v) = parent_index(v).some
           /\ is_root(v) =>
                /\ parent_index(v) = None
                /\ ~has_parent(v)
                /\ ret.some => outcome = "panic"
           /\ (~is_root(v) /\ ~ret.some) =>
                /\ parent_index(v) = None
                /\ ~has_parent(v)
           /\ (~is_root(v) /\ ret.some) =>
                /\ parent_index(v) = Some(ret.value)
                /\ has_parent(v)

\* The same for every index but usize::MAX, which is the mark of a parent
\* that is not set: after set_parent(usize::MAX) the vertex reports None.
ParentAccessorsAgreeBelowMax ==
    Len(vertices) = 1 =>
        LET v == vertices[1]
        IN /\ has_parent(v) = parent_index(v).some
           /\ is_root(v) =>
                /\ parent_index(v) = None
                /\ ~has_parent(v)
                /\ ret.some => outcome = "panic"
           /\ (~is_root(v) /\ ~ret.some) =>
                /\ parent_index(v) = None
                /\ ~has_parent(v)
           /\ (~is_root(v) /\ ret.some /\ ret.value # NO_PARENT_SET) =>
                /\ parent_index(v) = Some(ret.value)
                /\ has_parent(v)
           /\ (~is_root(v) /\ ret.some /\ ret.value = NO_PARENT_SET) =>
                /\ parent_index(v) = None
                /\ ~has_parent(v)

----------------------------------------------------------------------------
\* The label resolver on its own: a translation table T and a dictionary D,
\* the precomputed resolver built from them by new_key_to_index, and tokens
\* resolved by the translate-then-insert resolver and by the precomputed one.
MaxNames == 3       \* the actual names: 'A', 'AA', ... of up to MaxNames bytes
MaxTokens == 2      \* the tokens of a table: '9', '99', ... of up to MaxTokens bytes

Names == {[i \in 1..n |-> "A"] : n \in 1..MaxNames}
Tokens == {[i \in 1..n |-> "9"] : n \in 1..MaxTokens}
Tables == UNION {[K -> Names] : K \in SUBSET Tokens}
NameLists ==
    {d \in UNION {[1..n -> Names] : n \in 0..MaxNames} :
        \A i, j \in DOMAIN d : d[i] = d[j] => i = j}
\* the tokens resolved: those a table can have, the empty one, a longer one
ProbeTokens == Tokens \cup {<<>>, [i \in 1..(MaxTokens + 1) |-> "9"]}

\* LabelResolver::new_key_to_index(&translation, &leaf_label_map, &parser)
make_key_to_index ==
    /\ outcome = "idle"
    /\ translate.some
    /\ resolver.kind = "KeyToLabelToIndex"
    /\ LET built == new_key_to_index(translate.value, leaf_label_map)
       IN IF built.ok
          THEN /\ resolver' = built.resolver
               /\ UNCHANGED <<outcome, error>>
          ELSE /\ \E name \in KeyToIndexMissing(translate.value, leaf_label_map) :
                    error' = [kind |-> NotFound(name, "LeafLabelMap").kind,
                              msg |-> NotFound(name, "LeafLabelMap").msg,
                              position |-> pos]
               /\ outcome' = "err"
               /\ UNCHANGED resolver
    /\ UNCHANGED <<entry, input, closed, pos, stack, ret, vertices, root_index,
                   num_leaves, steps, leaf_label_map, driverVars, unitVars>>

\* resolver.resolve_label(token, &parser) with the translate-then-insert
\* resolver over T and D and, once it is built, with the precomputed one.
resolve_token ==
    /\ outcome = "idle"
    /\ translate.some
    /\ \E token \in ProbeTokens :
         LET inserting == resolve_label(new_key_to_label_to_index(translate.value),
                                        leaf_label_map, token)
         IN /\ probe' = Some([token |-> token,
                              before |-> leaf_label_map,
                              inserting |-> inserting,
                              precomputed |->
                                 IF resolver.kind = "KeyToIndex"
                                 THEN Some(resolve_label(resolver, leaf_label_map, token))
                                 ELSE None])
            /\ leaf_label_map' = inserting.map
    /\ UNCHANGED <<parseVars, resolver, driverVars, candidate, made>>

InitResolver ==
    /\ ParserIdle
    /\ trees = <<>>
    /\ block = [at |-> "none", statements |-> 0]
    /\ candidate = NaN
    /\ made = None
    /\ probe = None
    /\ \E t \in Tables :
         /\ translate = Some(t)
         /\ resolver = new_key_to_label_to_index(t)
    /\ leaf_label_map \in NameLists

NextResolver ==
    \/ make_key_to_index
    \/ resolve_token

SpecResolver == InitResolver /\ [][NextResolver]_vars

\* C6: when the dictionary D has every actual name of the table T, the
\* precomputed resolver built from T and D and the translate-then-insert
\* resolver over T and D give the same dictionary index for every token that
\* is a key of T, both fail on every token that is not a key of T, and a
\* resolve with the precomputed resolver leaves D as it was.
C6_PrecomputedAgreesWithInserting ==
    (/\ probe.some
     /\ probe.value.precomputed.some
     /\ \A k \in DOMAIN translate.value :
           get_index(probe.value.before, translate.value[k]).some) =>
        LET token == probe.value.token
            fast == probe.value.precomputed.value
            slow == probe.value.inserting
        IN /\ fast.map = probe.value.before
           /\ leaf_label_map = probe.value.before
           /\ token \in DOMAIN translate.value =>
                /\ fast.ok
                /\ slow.ok
                /\ fast.index = slow.index
                /\ probe.value.before[fast.index + 1] = translate.value[token]
           /\ token \notin DOMAIN translate.value =>
                /\ ~fast.ok
                /\ ~slow.ok

\* The precomputed resolver gave a key of a two-entry table the index of its
\* name, which is not the first of the dictionary.
C6_Witness ==
    /\ probe.some
    /\ probe.value.precomputed.some
    /\ probe.value.precomputed.value.ok
    /\ probe.value.precomputed.value.index > 0
    /\ probe.value.inserting.index = probe.value.precomputed.value.index
    /\ Cardinality(DOMAIN translate.value) = 2

\* C8: resolving a token that is not a key of the translation table fails
\* with an InvalidNewickString error whose detail names the token, with the
\* translate-then-insert resolver and with the precomputed one alike, and
\* the failed resolve leaves the dictionary as it was.
C8_MissingTokenIsNamed ==
    (probe.some /\ probe.value.token \notin DOMAIN translate.value) =>
        LET token == probe.value.token
            Named(r) ==
                /\ ~r.ok
                /\ r.kind = "InvalidNewickString"
                /\ \E i \in DOMAIN r.msg.args : r.msg.args[i] = token
                /\ r.map = probe.value.before
        IN /\ Named(probe.value.inserting)
           /\ probe.value.precomputed.some => Named(probe.value.precomputed.value)
           /\ leaf_label_map = probe.value.before

\* A token that the table lacks was resolved with both resolvers, over a
\* table and a dictionary that are not empty.
C8_Witness ==
    /\ probe.some
    /\ probe.value.token \notin DOMAIN translate.value
    /\ probe.value.token # <<>>
    /\ probe.value.precomputed.some
    /\ ~probe.value.precomputed.value.ok
    /\ ~probe.value.inserting.ok
    /\ DOMAIN translate.value # {}
    /\ probe.value.before # <<>>

\* C13: new_key_to_index succeeds exactly when the actual name of every
\* entry of the translation table is in the dictionary, the entries whose
\* token was never resolved included; when a name is absent it returns an
\* InvalidNewickString error and no resolver; on success the index map has
\* the tokens of the table, all of them and no other, as its keys; the
\* dictionary is as it was before, whichever the outcome.
C13_KeyToIndexBuiltIffNamesKnown ==
    /\ [](/\ resolver.kind = "KeyToIndex" =>
               /\ outcome = "idle"
               /\ \A k \in DOMAIN translate.value :
                    get_index(leaf_label_map, translate.value[k]).some
               /\ DOMAIN resolver.index_map = DOMAIN translate.value
          /\ outcome = "err" =>
               /\ \E k \in DOMAIN translate.value :
                    ~get_index(leaf_label_map, translate.value[k]).some
               /\ error.kind = "InvalidNewickString"
               /\ resolver.kind = "KeyToLabelToIndex"
               /\ resolver = new_key_to_label_to_index(translate.value))
    /\ [][(resolver' # resolver \/ outcome' # outcome) =>
             /\ leaf_label_map' = leaf_label_map
             /\ resolver.kind = "KeyToLabelToIndex"
             /\ outcome = "idle"
             /\ (resolver'.kind = "KeyToIndex") # (outcome' = "err")
             /\ (resolver'.kind = "KeyToIndex") =
                   (\A k \in DOMAIN translate.value :
                       get_index(leaf_label_map, translate.value[k]).some)]_vars

\* The build failed over a table of two entries after one of its tokens had
\* been resolved: the name of the other token is not in the dictionary.
C13_Witness ==
    /\ outcome = "err"
    /\ resolver.kind = "KeyToLabelToIndex"
    /\ Cardinality(DOMAIN translate.value) = 2
    /\ probe.some
    /\ probe.value.inserting.ok
    /\ Len(leaf_label_map) >= 1
    /\ \E k \in DOMAIN translate.value :
         /\ k # probe.value.token
         /\ ~get_index(leaf_label_map, translate.value[k]).some

----------------------------------------------------------------------------
\* The file driver in a tree block (spec.md 4.7): after the translation
\* table, if the block has one, the tree statements one after the other,
\* each parsed by parse_newick_with_resolver into the shared dictionary.
BlockTables ==
    { (<<"9">> :> <<"A">>),
      (<<"9">> :> <<"A">>) @@ (<<"9", "9">> :> <<"B">>) }
\* the dictionary as the taxa block left it
TaxaSeeds == { <<>>, << <<"B">>, <<"A">> >> }

\* TREE <name> = : the resolver of the statement is chosen and the
\* description is handed to parse_newick_with_resolver.
tree_statement ==
    /\ block.at = "trees"
    /\ block.statements < MaxTrees
    /\ LET build == new_key_to_index(translate.value, leaf_label_map)
           starts == ~translate.some \/ block.statements = 0
                        \/ resolver.kind = "KeyToIndex" \/ build.ok
       IN /\ resolver' =
                IF ~translate.some THEN new_label_to_index
                ELSE IF block.statements = 0
                     THEN new_key_to_label_to_index(translate.value)
                ELSE IF resolver.kind = "KeyToIndex" THEN resolver
                ELSE IF build.ok THEN build.resolver
                ELSE resolver
          /\ IF starts
             THEN /\ block' = [at |-> "tree", statements |-> block.statements + 1]
                  /\ entry' = "parse_newick_with_resolver"
                  /\ stack' = <<Frame("parse_newick_with_resolver", "skip_whitespace")>>
                  /\ outcome' = "running"
                  /\ UNCHANGED error
             ELSE /\ block' = [at |-> "failed", statements |-> block.statements + 1]
                  /\ \E name \in KeyToIndexMissing(translate.value, leaf_label_map) :
                       error' = [kind |-> NotFound(name, "LeafLabelMap").kind,
                                 msg |-> NotFound(name, "LeafLabelMap").msg,
                                 position |-> pos]
                  /\ outcome' = "err"
                  /\ UNCHANGED <<entry, stack>>
    /\ UNCHANGED <<input, closed, pos, ret, vertices, root_index, num_leaves,
                   steps, leaf_label_map, translate, trees, unitVars>>

\* The statement gave its tree: it is added to the trees of the file.
tree_statement_done ==
    /\ block.at = "tree"
    /\ outcome = "ok"
    /\ trees' = Append(trees, [statement |-> block.statements,
                               resolver |-> resolver.kind,
                               num_leaves |-> num_leaves,
                               is_valid |-> is_valid(vertices, root_index, num_leaves)])
    /\ block' = [at |-> "trees", statements |-> block.statements]
    /\ entry' = "none"
    /\ input' = <<>>
    /\ closed' = FALSE
    /\ pos' = 0
    /\ stack' = <<>>
    /\ ret' = None
    /\ vertices' = <<>>
    /\ root_index' = None
    /\ num_leaves' = 0
    /\ outcome' = "idle"
    /\ steps' = 0
    /\ UNCHANGED <<error, leaf_label_map, resolver, translate, unitVars>>

\* The statement gave an error: it is the result of the file.
tree_statement_failed ==
    /\ block.at = "tree"
    /\ outcome = "err"
    /\ block' = [at |-> "failed", statements |-> block.statements]
    /\ UNCHANGED <<parseVars, leaf_label_map, resolver, translate, trees, unitVars>>

\* END; after one or more tree statements: the trees and the dictionary
\* are the result of the file.
end_block ==
    /\ block.at = "trees"
    /\ block.statements >= 1
    /\ block' = [at |-> "done", statements |-> block.statements]
    /\ UNCHANGED <<parseVars, leaf_label_map, resolver, translate, trees, unitVars>>

InitDriver ==
    /\ ParserIdle
    /\ UnitIdle
    /\ translate \in {None} \cup {Some(t) : t \in BlockTables}
    /\ leaf_label_map \in TaxaSeeds
    /\ resolver = new_label_to_index
    /\ trees = <<>>
    /\ block = [at |-> "trees", statements |-> 0]

NextDriver ==
    \/ tree_statement
    \/ ParseStep
    \/ tree_statement_done
    \/ tree_statement_failed
    \/ end_block

SpecDriver == InitDriver /\ [][NextDriver]_vars

\* The resolver that the n-th tree statement of the block is to be parsed with.
ResolverOfStatement(n) ==
    IF ~translate.some THEN "LabelToIndex"
    ELSE IF n = 1 THEN "KeyToLabelToIndex"
    ELSE "KeyToIndex"

\* C7: in a tree block with a translation table the first tree statement is
\* parsed with the translate-then-insert resolver and every later one with
\* the precomputed resolver, and in a block without a table every statement
\* is parsed with the direct resolver; once the first tree of a translated
\* block is parsed, no later tree of the block changes the dictionary; the
\* driver returns one tree per tree statement, in the order of the file.
C7_ResolverPerStatement ==
    /\ [](/\ block.at = "tree" => resolver.kind = ResolverOfStatement(block.statements)
          /\ \A i \in 1..Len(trees) :
               /\ trees[i].statement = i
               /\ trees[i].resolver = ResolverOfStatement(i)
          /\ block.at \in {"trees", "done"} => Len(trees) = block.statements
          /\ block.at = "tree" => Len(trees) = block.statements - 1)
    /\ [][(translate.some /\ Len(trees) >= 1) => leaf_label_map' = leaf_label_map]_vars

\* A block with a translation table gave three trees, each of two leaves.
C7_Witness ==
    /\ block.at = "done"
    /\ translate.some
    /\ Len(trees) >= 3
    /\ trees[1].resolver = "KeyToLabelToIndex"
    /\ trees[3].resolver = "KeyToIndex"
    /\ \A i \in 1..Len(trees) : trees[i].num_leaves = 2 /\ trees[i].is_valid
    /\ Len(leaf_label_map) = 2

====
